---- MODULE Spec2Model ----
(***************************************************************************)
(* PayPalButton.js: a stateless wrapper that normalises caller parameters  *)
(* into a data and a config object and hands them to paypal.button.create. *)
(*                                                                         *)
(* JavaScript values.  Enumerated strings are TLA+ strings.  The values    *)
(* undefined, true and false are the reserved tokens UNDEF, JS_TRUE and    *)
(* JS_FALSE, which are different from every JavaScript string of the       *)
(* model.  Button captions are sequences of characters, so that length,    *)
(* concatenation and String.prototype.replace are computed on characters;  *)
(* an undefined caption is NoLabel.  Objects are functions from their own  *)
(* keys to values: a key that was never assigned is not in the DOMAIN.     *)
(***************************************************************************)
EXTENDS Integers, Sequences, FiniteSets, TLC

UNDEF == "<undefined>"
JS_TRUE == "<true>"
JS_FALSE == "<false>"
NoLabel == <<UNDEF>>

\* ToBoolean of a non-caption value: undefined, false and "" are falsy
Truthy(v) == v \notin {UNDEF, JS_FALSE, ""}
\* ToBoolean of a caption: undefined and "" are falsy
TruthyLabel(l) == l # NoLabel /\ Len(l) > 0

EmptyObj == [k \in {} |-> UNDEF]
\* o.k = v
Put(o, k, v) == [x \in (DOMAIN o) \cup {k} |-> IF x = k THEN v ELSE o[x]]
\* o.k read as a non-caption value
Get(o, k) == IF k \in DOMAIN o THEN o[k] ELSE UNDEF
\* o.label read as a caption
GetLabel(o) == IF "label" \in DOMAIN o THEN o["label"] ELSE NoLabel

(***************************************************************************)
(* The constant tables (JavaScript index i is TLA+ index i + 1).           *)
(***************************************************************************)
COLORS == <<"blue", "silver", "gold">>
BOOL == <<"false", "true">>
TYPES == <<"checkout", "credit">>
SIZES == <<"tiny", "small", "medium", "large">>
SHAPES == <<"pill", "rect">>
STYLES == <<"primary", "secondary", "tertiary", "quaternary", "checkout", "credit">>
BUTTON_TYPES == <<"button", "submit">>
DEFAULT_LOCALE == "en_US"
DEFAULT_COLOR == COLORS[1]
DEFAULT_LABEL == <<"{", "w", "o", "r", "d", "m", "a", "r", "k", "}">>
DEFAULT_SIZE == SIZES[3]
DEFAULT_STYLE == "primary"
DEFAULT_SHAPE == SHAPES[2]
DEFAULT_TYPE == TYPES[1]
DEFAULT_BUTTON_TYPE == BUTTON_TYPES[1]
\* the character \x7F
FILLER == <<"\\x7F">>

(***************************************************************************)
(* Array.prototype.indexOf (strict equality): the 0-based index of the     *)
(* first element equal to val, -1 when there is none.                      *)
(***************************************************************************)
indexOf(array, val) ==
    IF \E i \in 1..Len(array) : array[i] = val
    THEN (CHOOSE i \in 1..Len(array) :
              /\ array[i] = val
              /\ \A j \in 1..(i - 1) : array[j] # val) - 1
    ELSE -1

\* a membership test that loses the element at index 0
sanitizeValueFromOne(val, array, default_val) ==
    IF indexOf(array, val) > 0 THEN val ELSE default_val

sanitizeValue(val, array, default_val) ==
    IF indexOf(array, val) > -1 THEN val ELSE default_val

(***************************************************************************)
(* String.prototype.replace(pattern, "") with a string pattern: removes    *)
(* the first occurrence of the pattern only.                               *)
(***************************************************************************)
occursAt(s, pat, i) ==
    /\ i + Len(pat) - 1 <= Len(s)
    /\ SubSeq(s, i, i + Len(pat) - 1) = pat

\* replace with a global pattern: removes every occurrence
RECURSIVE replaceAll(_, _)
replaceAll(s, pat) ==
    IF \E i \in 1..Len(s) : occursAt(s, pat, i)
    THEN LET i == CHOOSE k \in 1..Len(s) :
                      /\ occursAt(s, pat, k)
                      /\ \A j \in 1..(k - 1) : ~occursAt(s, pat, j)
         IN replaceAll(SubSeq(s, 1, i - 1) \o SubSeq(s, i + Len(pat), Len(s)), pat)
    ELSE s

replace(s, pat) ==
    IF \E i \in 1..Len(s) : occursAt(s, pat, i)
    THEN LET i == CHOOSE k \in 1..Len(s) :
                      /\ occursAt(s, pat, k)
                      /\ \A j \in 1..(k - 1) : ~occursAt(s, pat, j)
         IN SubSeq(s, 1, i - 1) \o SubSeq(s, i + Len(pat), Len(s))
    ELSE s

(***************************************************************************)
(* normalizeData.  label.length is read first: an undefined label raises a *)
(* TypeError there (normalizeDataThrows); for a string label the object    *)
(* of lines 65-71 is returned.                                             *)
(***************************************************************************)
normalizeDataThrows(label) == label = NoLabel

\* the caption without the \x7F prefix
labelNoFiller(label) == label

\* the caption after lines 61-63
labelFilled(label) ==
    IF ~(Len(label) > 0 /\ Len(replace(label, DEFAULT_LABEL)) > 0)
    THEN FILLER \o label
    ELSE label

normalizeData(id, type, label, show_icon, locale, disabled) ==
    [lc |-> locale,
     label |-> labelFilled(label) \o (IF Truthy(show_icon) THEN DEFAULT_LABEL ELSE <<>>),
     disabled |-> IF Truthy(disabled) THEN "true" ELSE "false",
     button_type |-> type,
     id |-> id]

\* normalizeConfig with size and shape exchanged
normalizeConfigSwapped(size, shape) ==
    [type |-> "button", size |-> shape, shape |-> size]

normalizeConfig(size, shape) ==
    [type |-> "button", size |-> size, shape |-> shape]

(***************************************************************************)
(* The environment of line 150.  paypal is one of the shapes PaypalShapes; *)
(* document.querySelector returns the anchor node, null when the selector  *)
(* matches nothing, and raises a SyntaxError on the empty selector.        *)
(***************************************************************************)
PaypalShapes == {"undefined", "null", "no_button", "no_create", "ok"}
Selectors == {"#mount", "#missing", ""}
querySelectorThrows(sel) == sel = ""
querySelector(sel) == IF sel = "#mount" THEN "node#mount" ELSE "null"

\* paypal.button.create(autoRender, data, config, anchor): one invocation, as the renderer sees it
Invocation(autoRender, data, config, anchor) ==
    [autoRender |-> autoRender, data |-> data, config |-> config, anchor |-> anchor]

\* the outcome of a call: what it returned or raised, the data and config objects as the call
\* left them, and the renderer invocations it made
Outcome(threw, error, ret, data, config, rendered) ==
    [threw |-> threw, error |-> error, ret |-> ret, data |-> data, config |-> config,
     rendered |-> rendered]

\* line 150
create(data, config, parent_selector, paypalShape) ==
    IF paypalShape \in {"undefined", "null", "no_button"}
    THEN Outcome(TRUE, "paypal.button unavailable", UNDEF, data, config, <<>>)
    ELSE IF querySelectorThrows(parent_selector)
    THEN Outcome(TRUE, "SyntaxError: selector", UNDEF, data, config, <<>>)
    ELSE IF paypalShape = "no_create"
    THEN Outcome(TRUE, "paypal.button.create is not a function", UNDEF, data, config, <<>>)
    ELSE Outcome(FALSE, "", "RendererHandle", data, config,
                 <<Invocation(JS_TRUE, data, config, querySelector(parent_selector))>>)

\* line 127 with a pass-through of the caller's type
configTypeKept(config) == sanitizeValue(Get(config, "type"), BUTTON_TYPES, "button")

\* line 127: config.type after the singleton-set sanitize
configType(config) == sanitizeValue(Get(config, "type"), <<"button">>, "button")

\* lines 121-124 writing the sanitized value back into data.disabled
factoryDisabledInPlace(d) ==
    IF Get(d, "disabled") # UNDEF
    THEN Put(d, "disabled", sanitizeValue(Get(d, "disabled"), BOOL, BOOL[1]))
    ELSE d

\* lines 121-124
factoryDisabled(d) ==
    IF Get(d, "disabled") # UNDEF
    THEN Put(d, "button_disabled", sanitizeValue(Get(d, "disabled"), BOOL, BOOL[1]))
    ELSE d

\* lines 111-128: the data object after the factory's assignments
factoryData(data, config) ==
    LET d1 == Put(data, "lc", IF Truthy(Get(data, "lc")) THEN Get(data, "lc") ELSE DEFAULT_LOCALE)
        d2 == Put(d1, "label", IF TruthyLabel(GetLabel(d1)) THEN GetLabel(d1) ELSE DEFAULT_LABEL)
        d3 == IF Truthy(Get(d2, "color"))
              THEN Put(d2, "color", sanitizeValue(Get(d2, "color"), COLORS, DEFAULT_COLOR))
              ELSE d2
        d4 == factoryDisabled(d3)
    IN Put(d4, "button_type", configType(config))

\* lines 130-148 without the truthiness guards: an omitted field gets its default
factoryConfigEnumsAlways(c1) ==
    LET c2 == Put(c1, "label", sanitizeValue(Get(c1, "label"), TYPES, TYPES[1]))
        c3 == Put(c2, "size", sanitizeValue(Get(c2, "size"), SIZES, DEFAULT_SIZE))
        c4 == Put(c3, "shape", sanitizeValue(Get(c3, "shape"), SHAPES, DEFAULT_SHAPE))
    IN Put(c4, "style", sanitizeValue(Get(c4, "style"), STYLES, DEFAULT_STYLE))

\* lines 130-148 without the branch of lines 145-148
factoryConfigEnumsNoStyle(c1) ==
    LET c2 == IF Truthy(Get(c1, "label"))
              THEN Put(c1, "label", sanitizeValue(Get(c1, "label"), TYPES, TYPES[1]))
              ELSE c1
        c3 == IF Truthy(Get(c2, "size"))
              THEN Put(c2, "size", sanitizeValue(Get(c2, "size"), SIZES, DEFAULT_SIZE))
              ELSE c2
    IN IF Truthy(Get(c3, "shape"))
       THEN Put(c3, "shape", sanitizeValue(Get(c3, "shape"), SHAPES, DEFAULT_SHAPE))
       ELSE c3

\* lines 130-148: config.label, config.size, config.shape and config.style
factoryConfigEnums(c1) ==
    LET c2 == IF Truthy(Get(c1, "label"))
              THEN Put(c1, "label", sanitizeValue(Get(c1, "label"), TYPES, TYPES[1]))
              ELSE c1
        c3 == IF Truthy(Get(c2, "size"))
              THEN Put(c2, "size", sanitizeValue(Get(c2, "size"), SIZES, DEFAULT_SIZE))
              ELSE c2
        c4 == IF Truthy(Get(c3, "shape"))
              THEN Put(c3, "shape", sanitizeValue(Get(c3, "shape"), SHAPES, DEFAULT_SHAPE))
              ELSE c3
    IN IF Truthy(Get(c4, "style"))
       THEN Put(c4, "style", sanitizeValue(Get(c4, "style"), STYLES, DEFAULT_STYLE))
       ELSE c4

\* lines 127-148: the config object after the factory's assignments
factoryConfig(config) == factoryConfigEnums(Put(config, "type", configType(config)))

factory(data, config, parent_selector, paypalShape) ==
    create(factoryData(data, config), factoryConfig(config), parent_selector, paypalShape)

\* the TypeError of line 61 on an undefined label, raised before any object is built
labelTypeError ==
    Outcome(TRUE, "TypeError: label.length", UNDEF, EmptyObj, EmptyObj, <<>>)

createCheckoutButton(parent_selector, id, size, shape, color, label, show_icon, tagline, locale, disabled, type, paypalShape) ==
    IF normalizeDataThrows(label)
    THEN labelTypeError
    ELSE LET d0 == normalizeData(id, DEFAULT_BUTTON_TYPE, label, show_icon, locale, disabled)
             d1 == Put(d0, "color", color)
             data == Put(d1, "tagline", IF Truthy(tagline) THEN "true" ELSE "false")
             c0 == normalizeConfig(size, shape)
             config == Put(c0, "label", sanitizeValue(type, TYPES, DEFAULT_TYPE))
         IN factory(data, config, parent_selector, paypalShape)

\* a credit button that keeps the default kind
createCreditButtonAsCheckout(parent_selector, id, size, shape, label, show_icon, tagline, locale, disabled, paypalShape) ==
    createCheckoutButton(parent_selector, id, size, shape, "", label, show_icon, tagline,
                         locale, disabled, TYPES[1], paypalShape)

createCreditButton(parent_selector, id, size, shape, label, show_icon, tagline, locale, disabled, paypalShape) ==
    createCheckoutButton(parent_selector, id, size, shape, "", label, show_icon, tagline,
                         locale, disabled, TYPES[2], paypalShape)

createStyleButton(parent_selector, id, size, shape, style, label, show_icon, locale, disabled, paypalShape) ==
    IF normalizeDataThrows(label)
    THEN labelTypeError
    ELSE LET data == normalizeData(id, DEFAULT_BUTTON_TYPE, label, show_icon, locale, disabled)
             c0 == normalizeConfig(size, shape)
             config == Put(c0, "style", style)
         IN factory(data, config, parent_selector, paypalShape)

(***************************************************************************)
(* Lines 1-8, evaluated once when the script is loaded.                    *)
(*   typeof paypal.button on a null paypal raises a TypeError;             *)
(*   if (console) on an undeclared console raises a ReferenceError;      *)
(*   throw new err on a declared but falsy console raises a TypeError    *)
(*   (err is a string, not a constructor).                                 *)
(* A fault aborts the script before line 37: no method is defined.         *)
(***************************************************************************)
ConsoleEnvs == {"undeclared", "falsy", "present"}
err == "paypal global object not found or incompatible."

paypalAbsent(paypalShape) == paypalShape \in {"undefined", "no_button", "no_create"}

\* lines 1-8 with the branches of if (console) exchanged
loadCheckSwapped(paypalShape, consoleEnv) ==
    IF paypalShape = "null"
    THEN [diag |-> <<>>, fault |-> "TypeError"]
    ELSE IF paypalAbsent(paypalShape)
    THEN IF consoleEnv = "undeclared" THEN [diag |-> <<>>, fault |-> "ReferenceError"]
         ELSE IF consoleEnv = "present" THEN [diag |-> <<>>, fault |-> "TypeError"]
         ELSE [diag |-> <<err>>, fault |-> "none"]
    ELSE [diag |-> <<>>, fault |-> "none"]

loadCheck(paypalShape, consoleEnv) ==
    IF paypalShape = "null"
    THEN [diag |-> <<>>, fault |-> "TypeError"]
    ELSE IF paypalAbsent(paypalShape)
    THEN IF consoleEnv = "undeclared" THEN [diag |-> <<>>, fault |-> "ReferenceError"]
         ELSE IF consoleEnv = "present" THEN [diag |-> <<err>>, fault |-> "none"]
         ELSE [diag |-> <<>>, fault |-> "TypeError"]
    ELSE [diag |-> <<>>, fault |-> "none"]

(***************************************************************************)
(* The values the calls are made with.                                     *)
(***************************************************************************)
MaxLabelParts == 2
LabelParts == {DEFAULT_LABEL, <<" ">>, <<"a">>}

RECURSIVE LabelsOf(_)
LabelsOf(k) ==
    IF k = 0 THEN {<<>>} ELSE {part \o l : part \in LabelParts, l \in LabelsOf(k - 1)}

Labels == UNION {LabelsOf(k) : k \in 0..MaxLabelParts}
BuyNow == <<"B", "u", "y", " ", "n", "o", "w">>
EntryLabels == {NoLabel, <<>>, DEFAULT_LABEL, BuyNow}

Ids == {"btn1"}
BoolInputs == {JS_TRUE, JS_FALSE}
LocaleInputs == {UNDEF, "de_DE"}
SizeInputs == {UNDEF, "large", "huge"}
ShapeInputs == {"", "pill", "round"}
ColorInputs == {UNDEF, "", "gold", "red"}
StyleInputs == {UNDEF, "", "secondary", "fancy"}
TypeInputs == {UNDEF, "checkout", "credit", "bogus"}
Arrays == {COLORS, BOOL, TYPES, SIZES, SHAPES, STYLES, BUTTON_TYPES, <<"button">>}
SanitizeInputs == {UNDEF, JS_TRUE, "", "blue", "Blue", "gold", "true", "button", "large", "huge"}
SanitizeDefaults == {"blue", "false", "medium", UNDEF}

\* an object literal with optional keys: a key given as ABSENT is left out
ABSENT == "<absent>"
Opt(o, k, v) == IF v = ABSENT THEN o ELSE Put(o, k, v)
OptLabel(o, l) == IF l = <<ABSENT>> THEN o ELSE Put(o, "label", l)

DataInputs ==
    {Opt(Opt(Opt(OptLabel(Opt(EmptyObj, "lc", lc), label), "color", color),
             "disabled", disabled), "button_type", button_type) :
        lc \in {ABSENT, "de_DE"}, label \in {<<ABSENT>>, <<"a">>},
        color \in {ABSENT, "gold", "red"},
        disabled \in {ABSENT, "true", JS_TRUE, "yes"},
        button_type \in {"submit"}}

ConfigInputs ==
    {Opt(Opt(Opt(Opt(Opt(EmptyObj, "type", type), "label", label), "size", size),
             "shape", shape), "style", style) :
        type \in {ABSENT, "submit", "checkout"}, label \in {"credit", "bogus"},
        size \in {"", "large", "huge"}, shape \in {"pill", "round"},
        style \in {"secondary", "fancy"}}

(***************************************************************************)
(* State.                                                                  *)
(*   paypal, console  the globals the script finds when it is loaded       *)
(*   pc               "loading", then "aborted" (lines 1-8 raised) or      *)
(*                    "ready" (the methods are defined); "called" while    *)
(*                    the outcome of a call is with the caller             *)
(*   diagnostics      the messages written with console.error              *)
(*   fault            the fault raised while loading, "none" if none       *)
(*   call             the call made: its operation, arguments and outcome  *)
(***************************************************************************)
VARIABLES paypal, console, pc, diagnostics, fault, call

vars == <<paypal, console, pc, diagnostics, fault, call>>

NoCall == [op |-> "none", args |-> EmptyObj,
           out |-> Outcome(FALSE, "", UNDEF, EmptyObj, EmptyObj, <<>>)]

Returned(ret) == Outcome(FALSE, "", ret, EmptyObj, EmptyObj, <<>>)

Init ==
    /\ paypal \in PaypalShapes
    /\ console \in ConsoleEnvs
    /\ pc = "loading"
    /\ diagnostics = <<>>
    /\ fault = "none"
    /\ call = NoCall

Load ==
    /\ pc = "loading"
    /\ LET r == loadCheck(paypal, console)
       IN /\ diagnostics' = r.diag
          /\ fault' = r.fault
          /\ pc' = IF r.fault = "none" THEN "ready" ELSE "aborted"
    /\ UNCHANGED <<paypal, console, call>>

Invoke(op, args, out) ==
    /\ pc' = "called"
    /\ call' = [op |-> op, args |-> args, out |-> out]
    /\ UNCHANGED <<paypal, console, diagnostics, fault>>

SanitizeValue ==
    /\ pc = "ready"
    /\ \E val \in SanitizeInputs, array \in Arrays, default_val \in SanitizeDefaults :
        Invoke("sanitizeValue",
               [val |-> val, array |-> array, default_val |-> default_val],
               Returned(sanitizeValue(val, array, default_val)))

NormalizeData ==
    /\ pc = "ready"
    /\ \E id \in Ids, type \in {"button", "submit"}, label \in Labels \cup {NoLabel},
       show_icon \in BoolInputs \cup {UNDEF}, locale \in LocaleInputs, disabled \in BoolInputs :
        Invoke("normalizeData",
               [id |-> id, type |-> type, label |-> label, show_icon |-> show_icon,
                locale |-> locale, disabled |-> disabled],
               IF normalizeDataThrows(label)
               THEN labelTypeError
               ELSE Returned(normalizeData(id, type, label, show_icon, locale, disabled)))

NormalizeConfig ==
    /\ pc = "ready"
    /\ \E size \in SizeInputs, shape \in ShapeInputs :
        Invoke("normalizeConfig", [size |-> size, shape |-> shape],
               Returned(normalizeConfig(size, shape)))

Factory ==
    /\ pc = "ready"
    /\ \E data \in DataInputs, config \in ConfigInputs, parent_selector \in {"#mount", ""} :
        Invoke("factory",
               [data |-> data, config |-> config, parent_selector |-> parent_selector],
               factory(data, config, parent_selector, paypal))

CreateCheckoutButton ==
    /\ pc = "ready"
    /\ \E parent_selector \in Selectors, id \in Ids, size \in SizeInputs, shape \in ShapeInputs,
       color \in ColorInputs, label \in EntryLabels, show_icon \in BoolInputs,
       tagline \in BoolInputs, locale \in LocaleInputs, disabled \in BoolInputs,
       type \in TypeInputs :
        Invoke("createCheckoutButton",
               [parent_selector |-> parent_selector, id |-> id, size |-> size,
                shape |-> shape, color |-> color, label |-> label, show_icon |-> show_icon,
                tagline |-> tagline, locale |-> locale, disabled |-> disabled, type |-> type],
               createCheckoutButton(parent_selector, id, size, shape, color, label, show_icon,
                                    tagline, locale, disabled, type, paypal))

CreateCreditButton ==
    /\ pc = "ready"
    /\ \E parent_selector \in Selectors, id \in Ids, size \in SizeInputs, shape \in ShapeInputs,
       label \in EntryLabels, show_icon \in BoolInputs, tagline \in BoolInputs,
       locale \in LocaleInputs, disabled \in BoolInputs :
        Invoke("createCreditButton",
               [parent_selector |-> parent_selector, id |-> id, size |-> size,
                shape |-> shape, label |-> label, show_icon |-> show_icon,
                tagline |-> tagline, locale |-> locale, disabled |-> disabled],
               createCreditButton(parent_selector, id, size, shape, label, show_icon, tagline,
                                  locale, disabled, paypal))

CreateStyleButton ==
    /\ pc = "ready"
    /\ \E parent_selector \in Selectors, id \in Ids, size \in SizeInputs, shape \in ShapeInputs,
       style \in StyleInputs, label \in EntryLabels, show_icon \in BoolInputs,
       locale \in LocaleInputs, disabled \in BoolInputs :
        Invoke("createStyleButton",
               [parent_selector |-> parent_selector, id |-> id, size |-> size,
                shape |-> shape, style |-> style, label |-> label, show_icon |-> show_icon,
                locale |-> locale, disabled |-> disabled],
               createStyleButton(parent_selector, id, size, shape, style, label, show_icon,
                                 locale, disabled, paypal))

\* the call is over: its outcome went to the caller and the wrapper keeps nothing of it
Return ==
    /\ pc = "called"
    /\ pc' = "ready"
    /\ call' = NoCall
    /\ UNCHANGED <<paypal, console, diagnostics, fault>>

Next ==
    \/ Load
    \/ SanitizeValue
    \/ NormalizeData
    \/ NormalizeConfig
    \/ Factory
    \/ CreateCheckoutButton
    \/ CreateCreditButton
    \/ CreateStyleButton
    \/ Return

Spec == Init /\ [][Next]_vars

(***************************************************************************)
(* Properties.                                                             *)
(***************************************************************************)
Entries == {"createCheckoutButton", "createCreditButton", "createStyleButton"}
Member(v, array) == \E i \in DOMAIN array : array[i] = v

\* C1: sanitizeValue returns val when val is an element of array and default_val when it is
\* not; it raises nothing and returns no third value.
C1_Sanitize ==
    call.op = "sanitizeValue" =>
        /\ ~call.out.threw
        /\ Member(call.args.val, call.args.array) => call.out.ret = call.args.val
        /\ ~Member(call.args.val, call.args.array) => call.out.ret = call.args.default_val

C1_Witness ==
    /\ call.op = "sanitizeValue"
    /\ call.args = [val |-> "blue", array |-> COLORS, default_val |-> "false"]
    /\ call.out.ret = "blue"

\* The call of the end-to-end example
EndToEndArgs ==
    [parent_selector |-> "#mount", id |-> "btn1", size |-> "large", shape |-> "pill",
     color |-> "gold", label |-> BuyNow, show_icon |-> JS_TRUE, tagline |-> JS_TRUE,
     locale |-> "de_DE", disabled |-> JS_FALSE, type |-> "checkout"]

EndToEndCall ==
    /\ paypal = "ok"
    /\ call.op = "createCheckoutButton"
    /\ call.args = EndToEndArgs

EndToEndData ==
    [lc |-> "de_DE", label |-> BuyNow \o DEFAULT_LABEL, disabled |-> "false",
     button_type |-> "button", id |-> "btn1", color |-> "gold", tagline |-> "true"]

EndToEndConfig == [type |-> "button", size |-> "large", shape |-> "pill", label |-> "checkout"]

\* C2 as stated: the end-to-end call invokes the renderer once, with autoRender true, the
\* anchor of #mount, the config of the example and a data object of exactly the seven fields
\* of the example.
C2_Original ==
    EndToEndCall =>
        call.out.rendered =
            <<Invocation(JS_TRUE, EndToEndData, EndToEndConfig, "node#mount")>>

\* C2 (amended): the end-to-end call invokes the renderer once, with autoRender true, the
\* anchor of #mount, the config of the example and a data object of the seven fields of the
\* example plus button_disabled = "false".
C2_EndToEnd ==
    EndToEndCall =>
        /\ ~call.out.threw
        /\ call.out.rendered =
               <<Invocation(JS_TRUE, Put(EndToEndData, "button_disabled", "false"),
                            EndToEndConfig, "node#mount")>>

C2_Witness ==
    /\ EndToEndCall
    /\ Len(call.out.rendered) = 1
    /\ call.out.rendered[1].data.button_disabled = "false"

\* two objects with the same keys and the same values, except possibly at key k
SameExcept(a, b, k) ==
    /\ DOMAIN a = DOMAIN b
    /\ \A x \in (DOMAIN a) \ {k} : a[x] = b[x]

\* the outcome of createCheckoutButton on the arguments a of a createCreditButton call
CheckoutOf(a, color, type) ==
    createCheckoutButton(a.parent_selector, a.id, a.size, a.shape, color, a.label,
                         a.show_icon, a.tagline, a.locale, a.disabled, type, paypal)

\* C3: createCreditButton has the outcome (records, anchor, renderer invocations) of
\* createCheckoutButton with color "" and type "credit"; against any other color and kind
\* the records differ at most in data.color and config.label.
C3_CreditIsCheckout ==
    call.op = "createCreditButton" =>
        /\ call.out = CheckoutOf(call.args, "", "credit")
        /\ \A color \in ColorInputs \cup {"blue", "silver"}, type \in TypeInputs :
              LET o == CheckoutOf(call.args, color, type)
              IN /\ o.threw = call.out.threw
                 /\ Len(o.rendered) = Len(call.out.rendered)
                 /\ SameExcept(o.data, call.out.data, "color")
                 /\ SameExcept(o.config, call.out.config, "label")
                 /\ \A i \in DOMAIN o.rendered :
                       /\ o.rendered[i].anchor = call.out.rendered[i].anchor
                       /\ o.rendered[i].autoRender = call.out.rendered[i].autoRender
                       /\ SameExcept(o.rendered[i].data, call.out.rendered[i].data, "color")
                       /\ SameExcept(o.rendered[i].config, call.out.rendered[i].config, "label")

C3_Witness ==
    /\ call.op = "createCreditButton"
    /\ paypal = "ok"
    /\ Len(call.out.rendered) = 1
    /\ call.out.rendered[1].config.label = "credit"
    /\ call.out.rendered[1].data.color = ""
    /\ call.out.rendered[1].anchor = "node#mount"

\* the enumerated set and the default of the config fields the factory sanitizes
ConfigEnum(f) ==
    IF f = "size" THEN [set |-> {"tiny", "small", "medium", "large"}, default |-> "medium"]
    ELSE IF f = "shape" THEN [set |-> {"pill", "rect"}, default |-> "rect"]
    ELSE IF f = "style"
    THEN [set |-> {"primary", "secondary", "tertiary", "quaternary", "checkout", "credit"},
          default |-> "primary"]
    ELSE [set |-> {"checkout", "credit"}, default |-> "checkout"]

\* C4: a factory call replaces a non-empty config.size, shape, style or label outside its set
\* by the default, leaves a valid one unchanged, and raises nothing on account of them: it
\* raises only at the renderer call of line 150 (renderer missing, selector rejected), and
\* invokes the renderer once whenever the renderer is there and the selector is accepted.
C4_InvalidConfigCoerced ==
    call.op = "factory" =>
        /\ \A f \in {"size", "shape", "style", "label"} :
              LET v == Get(call.args.config, f)
              IN /\ (Truthy(v) /\ v \notin ConfigEnum(f).set) =>
                        Get(call.out.config, f) = ConfigEnum(f).default
                 /\ v \in ConfigEnum(f).set => Get(call.out.config, f) = v
        /\ call.out.threw <=> (paypal # "ok" \/ call.args.parent_selector = "")
        /\ ~call.out.threw =>
              /\ Len(call.out.rendered) = 1
              /\ call.out.rendered[1].config = call.out.config

C4_Witness ==
    /\ call.op = "factory"
    /\ Get(call.args.config, "size") = "huge"
    /\ Get(call.args.config, "shape") = "round"
    /\ Get(call.args.config, "style") = "fancy"
    /\ Get(call.args.config, "label") = "bogus"
    /\ Len(call.out.rendered) = 1
    /\ call.out.rendered[1].config =
           [type |-> "button", size |-> "medium", shape |-> "rect", style |-> "primary",
            label |-> "checkout"]

\* the size, shape, color and style a call of an entry point sets, as the caller gave them
EntryFields(op, a) ==
    IF op = "createCheckoutButton"
    THEN [size |-> a.size, shape |-> a.shape, color |-> a.color]
    ELSE IF op = "createCreditButton"
    THEN [size |-> a.size, shape |-> a.shape, color |-> ""]
    ELSE [size |-> a.size, shape |-> a.shape, style |-> a.style]

FieldEnum(f) ==
    IF f = "color" THEN [set |-> {"blue", "silver", "gold"}, default |-> "blue"]
    ELSE ConfigEnum(f)

\* the value of field f in the records of a renderer invocation
Rendered(inv, f) == IF f = "color" THEN Get(inv.data, f) ELSE Get(inv.config, f)

\* C5 as stated: after a call of an entry point every size, shape, color and style the entry
\* point sets reaches the renderer as a member of its enumerated set, an omitted one
\* (undefined or "") as the default.
C5_Original ==
    call.op \in Entries =>
        \A i \in DOMAIN call.out.rendered :
            \A f \in DOMAIN EntryFields(call.op, call.args) :
                LET v == EntryFields(call.op, call.args)[f]
                IN /\ Rendered(call.out.rendered[i], f) \in FieldEnum(f).set
                   /\ ~Truthy(v) => Rendered(call.out.rendered[i], f) = FieldEnum(f).default

\* C5 (amended): an entry point substitutes the default only for a non-empty value outside
\* the set; an omitted size, shape, color or style (undefined or "") reaches the renderer as
\* it was passed, so that each such field is a member of its set or the omitted value.
C5_DefaultsForInvalidOnly ==
    call.op \in Entries =>
        \A i \in DOMAIN call.out.rendered :
            \A f \in DOMAIN EntryFields(call.op, call.args) :
                LET v == EntryFields(call.op, call.args)[f]
                    r == Rendered(call.out.rendered[i], f)
                IN /\ ~Truthy(v) => r = v
                   /\ (Truthy(v) /\ v \in FieldEnum(f).set) => r = v
                   /\ (Truthy(v) /\ v \notin FieldEnum(f).set) => r = FieldEnum(f).default
                   /\ r \in FieldEnum(f).set \cup {UNDEF, ""}

C5_Witness ==
    /\ call.op = "createStyleButton"
    /\ call.args.size = UNDEF
    /\ call.args.shape = ""
    /\ call.args.style = UNDEF
    /\ Len(call.out.rendered) = 1
    /\ call.out.rendered[1].config.size = UNDEF
    /\ call.out.rendered[1].config.shape = ""
    /\ call.out.rendered[1].config.style = UNDEF

\* the caption with every occurrence of the wordmark placeholder removed
RECURSIVE StripAll(_)
StripAll(l) ==
    IF \E i \in 1..Len(l) : occursAt(l, DEFAULT_LABEL, i)
    THEN LET i == CHOOSE k \in 1..Len(l) : occursAt(l, DEFAULT_LABEL, k)
         IN StripAll(SubSeq(l, 1, i - 1) \o SubSeq(l, i + Len(DEFAULT_LABEL), Len(l)))
    ELSE l

\* the caption without its white space (none is left after trimming iff none is left here)
NoSpace(l) == SelectSeq(l, LAMBDA c : c # " ")

Suffix(show_icon) == IF show_icon = JS_TRUE THEN DEFAULT_LABEL ELSE <<>>

\* C6 as stated: the label is the filler (iff the caption, stripped of every occurrence of
\* the wordmark placeholder and trimmed, is empty), the caption, and the wordmark placeholder
\* (iff show_icon).
C6_Original ==
    (call.op = "normalizeData" /\ ~call.out.threw) =>
        call.out.ret.label =
            (IF Len(NoSpace(StripAll(call.args.label))) = 0 THEN FILLER ELSE <<>>)
                \o call.args.label \o Suffix(call.args.show_icon)

\* C6 (amended): the label is the filler (iff the caption is empty or is exactly the wordmark
\* placeholder), the caption, and the wordmark placeholder (iff show_icon); a caption of
\* white space only, or of two or more placeholders, gets no filler.
C6_LabelShape ==
    (call.op = "normalizeData" /\ ~call.out.threw) =>
        call.out.ret.label =
            (IF call.args.label \in {<<>>, DEFAULT_LABEL} THEN FILLER ELSE <<>>)
                \o call.args.label \o Suffix(call.args.show_icon)

C6_Witness ==
    /\ call.op = "normalizeData"
    /\ call.args.label = DEFAULT_LABEL \o DEFAULT_LABEL
    /\ call.args.show_icon = JS_TRUE
    /\ call.out.ret.label = DEFAULT_LABEL \o DEFAULT_LABEL \o DEFAULT_LABEL

\* C7: normalizeData returns a non-empty label for every string caption, and the data.label
\* the renderer receives from an entry point is non-empty.
C7_LabelNonEmpty ==
    /\ (call.op = "normalizeData" /\ ~call.out.threw) =>
           (call.out.ret.label # NoLabel /\ Len(call.out.ret.label) > 0)
    /\ call.op \in Entries =>
           \A i \in DOMAIN call.out.rendered :
               /\ GetLabel(call.out.rendered[i].data) # NoLabel
               /\ Len(GetLabel(call.out.rendered[i].data)) > 0

C7_Witness ==
    /\ call.op = "normalizeData"
    /\ call.args.label = <<>>
    /\ call.args.show_icon = JS_FALSE
    /\ call.out.ret.label = FILLER

\* C8: normalizeConfig returns type "button"; after a factory call config.type and
\* data.button_type are "button", whatever they were, and so the renderer receives them.
C8_TypeIsButton ==
    /\ call.op = "normalizeConfig" => call.out.ret.type = "button"
    /\ call.op = "factory" =>
           /\ Get(call.out.config, "type") = "button"
           /\ Get(call.out.data, "button_type") = "button"
           /\ \A i \in DOMAIN call.out.rendered :
                  /\ Get(call.out.rendered[i].config, "type") = "button"
                  /\ Get(call.out.rendered[i].data, "button_type") = "button"

C8_Witness ==
    /\ call.op = "factory"
    /\ Get(call.args.config, "type") = "submit"
    /\ Get(call.args.data, "button_type") = "submit"
    /\ Len(call.out.rendered) = 1
    /\ call.out.rendered[1].config.type = "button"
    /\ call.out.rendered[1].data.button_type = "button"

\* C9: the dependency check runs once, when the script is loaded.  With paypal, paypal.button
\* or paypal.button.create undefined and a console, one diagnostic is written, nothing is
\* raised and the methods are defined; without a console a fault is raised instead; with the
\* entry point present there is neither a diagnostic nor a fault.  No call writes a diagnostic.
C9_LoadCheck ==
    /\ pc = "loading" => (diagnostics = <<>> /\ fault = "none")
    /\ (pc # "loading" /\ paypal \in {"undefined", "no_button", "no_create"}) =>
           IF console = "present"
           THEN diagnostics = <<err>> /\ fault = "none" /\ pc \in {"ready", "called"}
           ELSE diagnostics = <<>> /\ fault # "none" /\ pc = "aborted"
    /\ (pc # "loading" /\ paypal = "ok") =>
           (diagnostics = <<>> /\ fault = "none" /\ pc \in {"ready", "called"})

C9_Witness ==
    /\ paypal = "no_create"
    /\ console = "present"
    /\ diagnostics = <<err>>
    /\ fault = "none"
    /\ pc = "called"
    /\ call.op = "createCheckoutButton"

\* C10: a factory call leaves data.disabled as it was; when data.disabled is not undefined it
\* stores sanitize(data.disabled, BOOL, "false") in data.button_disabled, otherwise it adds no
\* button_disabled.  Through the entry points data.disabled is "true" or "false" and
\* data.button_disabled equals it.
C10_DisabledUntouched ==
    /\ call.op = "factory" =>
           LET d == Get(call.args.data, "disabled")
           IN /\ Get(call.out.data, "disabled") = d
              /\ ("disabled" \in DOMAIN call.out.data) = ("disabled" \in DOMAIN call.args.data)
              /\ d # UNDEF =>
                     Get(call.out.data, "button_disabled") =
                         (IF d \in {"false", "true"} THEN d ELSE "false")
              /\ d = UNDEF => "button_disabled" \notin DOMAIN call.out.data
    /\ (call.op \in Entries /\ call.args.label # NoLabel) =>
           /\ call.out.data.disabled = (IF call.args.disabled = JS_TRUE THEN "true" ELSE "false")
           /\ call.out.data.button_disabled = call.out.data.disabled

C10_Witness ==
    /\ call.op = "factory"
    /\ Get(call.args.data, "disabled") = JS_TRUE
    /\ Len(call.out.rendered) = 1
    /\ call.out.rendered[1].data.disabled = JS_TRUE
    /\ call.out.rendered[1].data.button_disabled = "false"
====
